---- MODULE Spec2Model ----
(***************************************************************************)
(* Account (openbb_core/app/static/account.py): login / save / refresh /   *)
(* logout against the hub, the persisted session file, the default         *)
(* settings store and the command log.                                     *)
(*                                                                         *)
(* Every statement of a handler that touches shared state (the current     *)
(* user settings, the session file, the default store, the hub) is one     *)
(* step of the calling thread; th[t].pc is the thread's position.          *)
(***************************************************************************)
EXTENDS Integers, Sequences, FiniteSets, TLC

\* ---------------------------------------------------------------- bounds
NumIds == 2
NumSessions == 2
NumData == 2

None == 0
Ids == 1..NumIds
Sessions == 1..NumSessions
Data == 1..NumData

\* Account.SESSION_FILE contents: no file, a file opened for writing and
\* not yet written, a file cut short in the middle of a write, or the JSON
\* object of a HubSession.
Absent == [kind |-> "absent", session |-> None]
Empty == [kind |-> "empty", session |-> None]
Partial == [kind |-> "partial", session |-> None]

\* json.dump(hs.session.model_dump(mode="json"), f, indent=4)
Serialize(s) == [kind |-> "json", session |-> s]

\* the existence test of line 79 left out
Exists_Always(f) == TRUE

\* session_file.exists()
Exists(f) == f.kind # "absent"

\* any file that exists taken for a readable one
Parses_AnyFile(f) == f.kind # "absent"

\* json.load(f) succeeds only on a complete JSON document
Parses(f) == f.kind = "json"

\* the stored session dropped when the client is built from the file
HubSessionOf_Lost(f) == None

\* HubSession(**session_dict)
HubSessionOf(f) == f.session

\* ------------------------------------------------------------- settings
NoSettings == [id |-> None, hub_session |-> None, data |-> None]

\* the three ways login is called: no credentials, email and password, pat
NoCreds == [email |-> None, password |-> None, pat |-> None]
ArgChoices ==
  { NoCreds,
    [email |-> 1, password |-> 1, pat |-> None],
    [email |-> None, password |-> None, pat |-> 1] }

\* UserService.update_default(incoming): a new settings object equal to the
\* pulled one
UpdateDefault(incoming) ==
  [id |-> incoming.id, hub_session |-> incoming.hub_session, data |-> incoming.data]

\* UserService.read_default_user_settings(): the stored baseline, never
\* carrying a hub session
ReadDefault(store) ==
  [id |-> store.id, hub_session |-> None, data |-> store.data]

\* UserService.write_default_user_settings(user_settings)
WriteDefault(s) == [id |-> s.id, data |-> s.data]

\* HubService.pull() on a client holding session s: the hub's settings
\* document for that session
Pulled(s, id, d) == [id |-> id, hub_session |-> s, data |-> d]

\* login keeping the current id, as refresh does
LoginUpdated_KeepsId(incoming, current) ==
  [UpdateDefault(incoming) EXCEPT !.id = current.id]

\* login installing the pulled settings without their profile's hub session
LoginUpdated_DropsSession(incoming, current) ==
  [UpdateDefault(incoming) EXCEPT !.hub_session = None]

\* login, lines 123-124
LoginUpdated(incoming, current) == UpdateDefault(incoming)

\* refresh without line 188
RefreshUpdated_NoIdentity(incoming, current) == UpdateDefault(incoming)

\* refresh, lines 187-188
RefreshUpdated(incoming, current) ==
  [UpdateDefault(incoming) EXCEPT !.id = current.id]

\* ---------------------------------------------------------------- state
VARIABLES
  user_settings,   \* self._base_app._command_runner.user_settings
  default_store,   \* the default user settings file of UserService
  session_file,    \* Path(openbb_directory, SESSION_FILE)
  th               \* per calling thread: position and locals

vars == <<user_settings, default_store, session_file, th>>

Threads == DOMAIN th

DefaultStore == [id |-> 1, data |-> 1]

IdleThread ==
  [ pc |-> "idle", op |-> "none",
    args |-> NoCreds, remember_me |-> FALSE, return_settings |-> FALSE,
    hub_session |-> None,        \* local hub_session / hs.session
    incoming |-> NoSettings,     \* local incoming
    err |-> "none",              \* the exception raised by the body
    ret |-> NoSettings,          \* the value returned by the body
    calls |-> <<>>,              \* hub calls made by this invocation
    logged |-> <<>>,             \* records this invocation passed to ls.log
    caught |-> <<>>,             \* the errors the caller has seen this invocation raise
    post |-> NoSettings,         \* user_settings when the call was left
    pre |-> NoSettings,          \* user_settings when the call began
    file0 |-> Absent,            \* session file when the call began
    store0 |-> DefaultStore,     \* default store when the call began
    file_read |-> FALSE,         \* the call has opened the session file for reading
    after_save |-> FALSE,        \* the call before this one was a save that succeeded,
                                 \* and the settings were not edited since
    after_logout |-> FALSE ]     \* the call before this one was a logout that succeeded

InitShared ==
  /\ default_store = DefaultStore
  /\ user_settings = ReadDefault(default_store)
  /\ session_file = Absent

Init ==
  /\ InitShared
  /\ th = [t \in {1} |-> IdleThread]

\* ------------------------------------------------------------- helpers
Set(t, r) == th' = [th EXCEPT ![t] = r]

\* an exception leaves the body: control passes to the finally block
Raise(t, e) == Set(t, [th[t] EXCEPT !.err = e, !.pc = "finally"])

\* the settings returned whatever the flag
Returned_Always(flag, settings) == settings

\* lines 134-136, 161-163, 191-193, 224-226
Returned(flag, settings) == IF flag THEN settings ELSE NoSettings

Begin(t, op) ==
  [ IdleThread EXCEPT
      !.op = op,
      !.pre = user_settings,
      !.file0 = session_file,
      !.store0 = default_store,
      !.after_save = (th[t].op = "save" /\ th[t].err = "none"
                        /\ th[t].post = user_settings),
      !.after_logout = (th[t].op = "logout" /\ th[t].err = "none") ]

AllIdle == \A t \in Threads : th[t].pc = "idle"

\* ---------------------------------------------------------------- login
\* _create_hub_service(email, password, pat), lines 77-90, for a call
\* record c; sets where control goes next
create_hub_service(t, c) ==
  IF c.args.email = None /\ c.args.password = None /\ c.args.pat = None
  THEN
    IF ~Exists(session_file)
    THEN Set(t, [c EXCEPT !.err = "Session not found.", !.pc = "finally"])
    ELSE IF ~Parses(session_file)
    THEN Set(t, [c EXCEPT !.file_read = TRUE,
                          !.err = "JSONDecodeError", !.pc = "finally"])
    ELSE Set(t, [c EXCEPT !.file_read = TRUE,
                          !.hub_session = HubSessionOf(session_file),
                          !.pc = "login_pull"])
  ELSE
    \* hs.connect(email, password, pat): the hub issues a session or rejects
    \/ \E s \in Sessions :
         Set(t, [c EXCEPT !.hub_session = s,
                          !.calls = Append(c.calls, "connect"),
                          !.pc = "login_pull"])
    \/ Set(t, [c EXCEPT !.calls = Append(c.calls, "connect"),
                        !.err = "AuthenticationError", !.pc = "finally"])

\* login(...), line 121
login(t) ==
  /\ th[t].pc = "idle"
  /\ \E a \in ArgChoices, rm \in BOOLEAN, rs \in BOOLEAN :
       create_hub_service(t, [Begin(t, "login") EXCEPT
                                !.args = a, !.remember_me = rm,
                                !.return_settings = rs])
  /\ UNCHANGED <<user_settings, default_store, session_file>>

\* HubService.pull() on the client of thread t, next position pc
pull(t, pc) ==
  LET c == [th[t] EXCEPT !.calls = Append(th[t].calls, "pull")] IN
  IF c.hub_session = None
  THEN Set(t, [c EXCEPT !.err = "NotConnectedError", !.pc = "finally"])
  ELSE
    \/ \E id \in Ids, d \in Data :
         Set(t, [c EXCEPT !.incoming = Pulled(c.hub_session, id, d), !.pc = pc])
    \/ Set(t, [c EXCEPT !.err = "HubUnavailableError", !.pc = "finally"])

\* line 122
login_pull(t) ==
  /\ th[t].pc = "login_pull"
  /\ pull(t, "login_install")
  /\ UNCHANGED <<user_settings, default_store, session_file>>

\* login persisting the session whether or not remember_me is set
login_install_AlwaysPersists(t) ==
  /\ th[t].pc = "login_install"
  /\ user_settings' = LoginUpdated(th[t].incoming, user_settings)
  /\ Set(t, [th[t] EXCEPT !.pc = "login_open"])
  /\ UNCHANGED <<default_store, session_file>>

\* lines 123-125, and 134-136 when remember_me is false
login_install(t) ==
  /\ th[t].pc = "login_install"
  /\ user_settings' = LoginUpdated(th[t].incoming, user_settings)
  /\ IF th[t].remember_me
     THEN Set(t, [th[t] EXCEPT !.pc = "login_open"])
     ELSE Set(t, [th[t] EXCEPT
                    !.ret = Returned(th[t].return_settings, user_settings'),
                    !.pc = "finally"])
  /\ UNCHANGED <<default_store, session_file>>

\* lines 126-128: mkdir(parents=False, exist_ok=True), open(session_file, "w")
login_open(t) ==
  /\ th[t].pc = "login_open"
  /\ \/ /\ session_file' = Empty
        /\ Set(t, [th[t] EXCEPT !.pc = "login_dump"])
     \/ /\ ~Exists(session_file)
        /\ Raise(t, "FileNotFoundError")
        /\ UNCHANGED session_file
  /\ UNCHANGED <<user_settings, default_store>>

\* lines 129-136
login_dump(t) ==
  /\ th[t].pc = "login_dump"
  /\ IF th[t].hub_session = None
     THEN /\ Raise(t, "Not connected to hub.")
          /\ UNCHANGED session_file
     ELSE \/ /\ session_file' = Serialize(th[t].hub_session)
             /\ Set(t, [th[t] EXCEPT
                          !.ret = Returned(th[t].return_settings, user_settings),
                          !.pc = "finally"])
          \/ /\ session_file' \in {Empty, Partial}
             /\ Raise(t, "OSError")
  /\ UNCHANGED <<user_settings, default_store>>

\* ----------------------------------------------------------------- save
\* HubService.push(user_settings) on the client of thread t
push(t) ==
  LET c == [th[t] EXCEPT !.calls = Append(th[t].calls, "push")] IN
  IF c.hub_session = None
  THEN Set(t, [c EXCEPT !.err = "NotConnectedError", !.pc = "finally"])
  ELSE
    \/ Set(t, [c EXCEPT !.ret = Returned(c.return_settings, user_settings),
                        !.pc = "finally"])
    \/ Set(t, [c EXCEPT !.err = "HubUnavailableError", !.pc = "finally"])

\* save pushing to the hub whatever the state
save_AlwaysPush(t) ==
  /\ th[t].pc = "idle"
  /\ \E rs \in BOOLEAN :
       Set(t, [Begin(t, "save") EXCEPT
                 !.return_settings = rs,
                 !.hub_session = user_settings.hub_session,
                 !.pc = "save_push"])
  /\ UNCHANGED <<user_settings, default_store, session_file>>

\* save(return_settings), lines 152-153
save(t) ==
  /\ th[t].pc = "idle"
  /\ \E rs \in BOOLEAN :
       Set(t, [Begin(t, "save") EXCEPT
                 !.return_settings = rs,
                 !.hub_session = user_settings.hub_session,
                 !.pc = IF user_settings.hub_session = None
                        THEN "save_write" ELSE "save_push"])
  /\ UNCHANGED <<user_settings, default_store, session_file>>

\* Anonymous save that does not write the default store
save_write_Skips(t) ==
  /\ th[t].pc = "save_write"
  /\ Set(t, [th[t] EXCEPT
               !.ret = Returned(th[t].return_settings, user_settings),
               !.pc = "finally"])
  /\ UNCHANGED <<user_settings, default_store, session_file>>

\* lines 154-156 and 161-163
save_write(t) ==
  /\ th[t].pc = "save_write"
  /\ default_store' = WriteDefault(user_settings)
  /\ Set(t, [th[t] EXCEPT
               !.ret = Returned(th[t].return_settings, user_settings),
               !.pc = "finally"])
  /\ UNCHANGED <<user_settings, session_file>>

\* save pushing a second time
save_push_Twice(t) ==
  /\ th[t].pc = "save_push"
  /\ Set(t, [th[t] EXCEPT
               !.calls = th[t].calls \o <<"push", "push">>,
               !.ret = Returned(th[t].return_settings, user_settings),
               !.pc = "finally"])
  /\ UNCHANGED <<user_settings, default_store, session_file>>

\* lines 158-163
save_push(t) ==
  /\ th[t].pc = "save_push"
  /\ push(t)
  /\ UNCHANGED <<user_settings, default_store, session_file>>

\* -------------------------------------------------------------- refresh
\* refresh(return_settings), lines 179-180
refresh(t) ==
  /\ th[t].pc = "idle"
  /\ \E rs \in BOOLEAN :
       Set(t, [Begin(t, "refresh") EXCEPT
                 !.return_settings = rs,
                 !.hub_session = user_settings.hub_session,
                 !.pc = IF user_settings.hub_session = None
                        THEN "refresh_default" ELSE "refresh_pull"])
  /\ UNCHANGED <<user_settings, default_store, session_file>>

\* the Anonymous refresh leaving the settings in memory in place
refresh_default_Keeps(t) ==
  /\ th[t].pc = "refresh_default"
  /\ Set(t, [th[t] EXCEPT
               !.ret = Returned(th[t].return_settings, user_settings),
               !.pc = "finally"])
  /\ UNCHANGED <<user_settings, default_store, session_file>>

\* lines 181-183 and 191-193
refresh_default(t) ==
  /\ th[t].pc = "refresh_default"
  /\ user_settings' = ReadDefault(default_store)
  /\ Set(t, [th[t] EXCEPT
               !.ret = Returned(th[t].return_settings, user_settings'),
               !.pc = "finally"])
  /\ UNCHANGED <<default_store, session_file>>

\* lines 185-186
refresh_pull(t) ==
  /\ th[t].pc = "refresh_pull"
  /\ pull(t, "refresh_install")
  /\ UNCHANGED <<user_settings, default_store, session_file>>

\* lines 187-193
refresh_install(t) ==
  /\ th[t].pc = "refresh_install"
  /\ user_settings' = RefreshUpdated(th[t].incoming, user_settings)
  /\ Set(t, [th[t] EXCEPT
               !.ret = Returned(th[t].return_settings, user_settings'),
               !.pc = "finally"])
  /\ UNCHANGED <<default_store, session_file>>

\* --------------------------------------------------------------- logout
\* logout without the test of lines 210-211
logout_NoCheck(t) ==
  /\ th[t].pc = "idle"
  /\ \E rs \in BOOLEAN :
       Set(t, [Begin(t, "logout") EXCEPT
                 !.return_settings = rs,
                 !.hub_session = user_settings.hub_session,
                 !.pc = "logout_disconnect"])
  /\ UNCHANGED <<user_settings, default_store, session_file>>

\* logout(return_settings), lines 209-211
logout(t) ==
  /\ th[t].pc = "idle"
  /\ \E rs \in BOOLEAN :
       LET c == [Begin(t, "logout") EXCEPT
                   !.return_settings = rs,
                   !.hub_session = user_settings.hub_session] IN
       IF user_settings.hub_session = None
       THEN Set(t, [c EXCEPT !.err = "Not connected to hub.", !.pc = "finally"])
       ELSE Set(t, [c EXCEPT !.pc = "logout_disconnect"])
  /\ UNCHANGED <<user_settings, default_store, session_file>>

\* logout deleting the session file before it disconnects
logout_disconnect_DeletesFirst(t) ==
  /\ th[t].pc = "logout_disconnect"
  /\ session_file' = Absent
  /\ LET c == [th[t] EXCEPT !.calls = Append(th[t].calls, "disconnect")] IN
       \/ Set(t, [c EXCEPT !.hub_session = None, !.pc = "logout_unlink"])
       \/ Set(t, [c EXCEPT !.err = "HubUnavailableError", !.pc = "finally"])
  /\ UNCHANGED <<user_settings, default_store>>

\* lines 213-214: HubService(hub_session).disconnect()
logout_disconnect(t) ==
  /\ th[t].pc = "logout_disconnect"
  /\ LET c == [th[t] EXCEPT !.calls = Append(th[t].calls, "disconnect")] IN
       \/ Set(t, [c EXCEPT !.hub_session = None, !.pc = "logout_unlink"])
       \/ Set(t, [c EXCEPT !.err = "HubUnavailableError", !.pc = "finally"])
  /\ UNCHANGED <<user_settings, default_store, session_file>>

\* logout leaving the session file in place
logout_unlink_Skips(t) ==
  /\ th[t].pc = "logout_unlink"
  /\ Set(t, [th[t] EXCEPT !.pc = "logout_default"])
  /\ UNCHANGED <<user_settings, default_store, session_file>>

\* lines 216-218
logout_unlink(t) ==
  /\ th[t].pc = "logout_unlink"
  /\ session_file' = IF Exists(session_file) THEN Absent ELSE session_file
  /\ Set(t, [th[t] EXCEPT !.pc = "logout_default"])
  /\ UNCHANGED <<user_settings, default_store>>

\* lines 220-226
logout_default(t) ==
  /\ th[t].pc = "logout_default"
  /\ user_settings' = ReadDefault(default_store)
  /\ Set(t, [th[t] EXCEPT
               !.ret = Returned(th[t].return_settings, user_settings'),
               !.pc = "finally"])
  /\ UNCHANGED <<default_store, session_file>>

\* ---------------------------------------------------------- environment
\* the caller edits the current settings in memory between commands
EditSettings ==
  /\ AllIdle
  /\ \E d \in Data :
       /\ d # user_settings.data
       /\ user_settings' = [user_settings EXCEPT !.data = d]
  /\ UNCHANGED <<default_store, session_file, th>>

\* a fresh process: Account.__init__ over the files the last process left
Restart ==
  /\ AllIdle
  /\ user_settings' = ReadDefault(default_store)
  /\ th' = [t \in Threads |-> IdleThread]
  /\ UNCHANGED <<default_store, session_file>>

\* ------------------------------------------------- _log_account_command
Route(op) == <<"account", op>>

\* lines 52-64: the record the finally block passes to ls.log
LogRecord(c) ==
  [ route |-> Route(c.op),
    kwargs |-> {},
    exec_info |-> IF c.err = "none" THEN "None" ELSE "OpenBBError" ]

\* the except clause re-raising what it caught
Wrapping_Bare(err) ==
  IF err = "none" THEN <<>> ELSE <<[type |-> err, cause |-> "none"]>>

\* lines 49-50: raise OpenBBError(e) from e
Wrapping(err) ==
  IF err = "none" THEN <<>> ELSE <<[type |-> "OpenBBError", cause |-> err]>>

\* control goes back to the caller of thread t, the locals of the call die
Leave(t, logged, caught) ==
  Set(t, [IdleThread EXCEPT
            !.op = th[t].op,
            !.err = th[t].err,
            !.ret = th[t].ret,
            !.post = user_settings,
            !.logged = logged,
            !.caught = caught])

\* the log call placed after the try statement instead of in its finally
wrapped_LogsOnSuccess(t) ==
  /\ th[t].pc = "finally"
  /\ Leave(t, IF th[t].err = "none"
              THEN Append(th[t].logged, LogRecord(th[t]))
              ELSE th[t].logged,
           Wrapping(th[t].err))
  /\ UNCHANGED <<user_settings, default_store, session_file>>

\* wrapped, lines 46-66: the except clause, the finally block, then the
\* return or the raise
wrapped(t) ==
  /\ th[t].pc = "finally"
  /\ Leave(t, Append(th[t].logged, LogRecord(th[t])), Wrapping(th[t].err))
  /\ UNCHANGED <<user_settings, default_store, session_file>>

Next ==
  \/ \E t \in Threads : login(t)
  \/ \E t \in Threads : login_pull(t)
  \/ \E t \in Threads : login_install(t)
  \/ \E t \in Threads : login_open(t)
  \/ \E t \in Threads : login_dump(t)
  \/ \E t \in Threads : save(t)
  \/ \E t \in Threads : save_write(t)
  \/ \E t \in Threads : save_push(t)
  \/ \E t \in Threads : refresh(t)
  \/ \E t \in Threads : refresh_default(t)
  \/ \E t \in Threads : refresh_pull(t)
  \/ \E t \in Threads : refresh_install(t)
  \/ \E t \in Threads : logout(t)
  \/ \E t \in Threads : logout_disconnect(t)
  \/ \E t \in Threads : logout_unlink(t)
  \/ \E t \in Threads : logout_default(t)
  \/ \E t \in Threads : wrapped(t)
  \/ EditSettings
  \/ Restart

Spec == Init /\ [][Next]_vars

\* ---------------------------------------------------- concurrent callers
\* Two threads call into the same Account: thread 1 one command, any of the
\* four, and thread 2 a logout, each at any moment, so that the steps of the
\* two commands interleave freely or one command ends before the other
\* begins. They start from a state the Account is in between two commands:
\* Anonymous with the default settings, or Connected after a login, with no
\* session file or the one a login with remember_me wrote.
ConnectedSettings ==
  { [id |-> i, hub_session |-> s, data |-> d] : i \in Ids, s \in Sessions, d \in Data }

InitConc ==
  /\ default_store = DefaultStore
  /\ user_settings \in {ReadDefault(DefaultStore)} \cup ConnectedSettings
  /\ session_file \in {Absent} \cup {Serialize(s) : s \in Sessions}
  /\ th = [t \in {1, 2} |-> IdleThread]

NotBegun(t) == th[t].op = "none"

NextConc ==
  \/ NotBegun(1) /\ login(1)
  \/ NotBegun(1) /\ save(1)
  \/ NotBegun(1) /\ refresh(1)
  \/ NotBegun(1) /\ logout(1)
  \/ NotBegun(2) /\ logout(2)
  \/ \E t \in Threads : login_pull(t)
  \/ \E t \in Threads : login_install(t)
  \/ \E t \in Threads : login_open(t)
  \/ \E t \in Threads : login_dump(t)
  \/ \E t \in Threads : save_write(t)
  \/ \E t \in Threads : save_push(t)
  \/ \E t \in Threads : refresh_default(t)
  \/ \E t \in Threads : refresh_pull(t)
  \/ \E t \in Threads : refresh_install(t)
  \/ \E t \in Threads : logout_disconnect(t)
  \/ \E t \in Threads : logout_unlink(t)
  \/ \E t \in Threads : logout_default(t)
  \/ \E t \in Threads : wrapped(t)

SpecConc == InitConc /\ [][NextConc]_vars

\* ------------------------------------------------------------ properties
\* the body of command op has ended in thread t, by return or by raise, and
\* the finally block has not run yet
Ended(t, op) == th[t].pc = "finally" /\ th[t].op = op

Succeeded(t, op) == Ended(t, op) /\ th[t].err = "none"

Failed(t, op) == Ended(t, op) /\ th[t].err # "none"

\* C1: refresh preserves identity. When a refresh begun in a Connected state
\* with current id X succeeds, the installed settings have id X, whatever id
\* the pull returned, and every other field is the pulled one.
C1_RefreshPreservesIdentity ==
  \A t \in Threads :
    (Succeeded(t, "refresh") /\ th[t].pre.hub_session # None) =>
      /\ user_settings.id = th[t].pre.id
      /\ user_settings.hub_session = th[t].incoming.hub_session
      /\ user_settings.data = th[t].incoming.data

\* a Connected refresh has succeeded whose pull returned another id and
\* other data than the current ones
C1_Witness ==
  \E t \in Threads :
    /\ Succeeded(t, "refresh")
    /\ th[t].pre.hub_session # None
    /\ th[t].incoming.id # th[t].pre.id
    /\ th[t].incoming.data # th[t].pre.data
    /\ "pull" \in {th[t].calls[i] : i \in DOMAIN th[t].calls}

\* C2: login does not preserve identity. When a login succeeds, from any
\* prior state, the installed settings have the id the pull returned.
C2_LoginTakesRemoteIdentity ==
  \A t \in Threads :
    Succeeded(t, "login") => user_settings.id = th[t].incoming.id

\* a login begun in a Connected state has succeeded with a pull that
\* returned an id other than the current one
C2_Witness ==
  \E t \in Threads :
    /\ Succeeded(t, "login")
    /\ th[t].pre.hub_session # None
    /\ th[t].incoming.id # th[t].pre.id
    /\ user_settings.id # th[t].pre.id

\* C3: idempotent logout. A logout begun in a Connected state fails only
\* when the hub's disconnect fails; once a logout has succeeded the session
\* file is absent, whether or not it existed before, and the state is
\* Anonymous; and the logout called right after a successful logout fails
\* with "Not connected to hub.".
C3_IdempotentLogout ==
  \A t \in Threads :
    /\ (Failed(t, "logout") /\ th[t].pre.hub_session # None) =>
         /\ th[t].err = "HubUnavailableError"
         /\ th[t].calls = <<"disconnect">>
    /\ Succeeded(t, "logout") =>
         /\ session_file.kind = "absent"
         /\ user_settings.hub_session = None
    /\ (Ended(t, "logout") /\ th[t].after_logout) =>
         th[t].err = "Not connected to hub."

\* the second of two logouts in a row has failed, the first having succeeded
C3_Witness ==
  \E t \in Threads :
    /\ Ended(t, "logout")
    /\ th[t].after_logout
    /\ th[t].err = "Not connected to hub."

\* C4: login without credentials requires a session file. A login called
\* with email, password and pat all absent while no session file exists
\* fails with "Session not found.", makes no hub call and leaves the
\* current settings as they were, so it does not reach Connected.
C4_LoginNeedsSessionFile ==
  \A t \in Threads :
    ( /\ Ended(t, "login")
      /\ th[t].args = NoCreds
      /\ th[t].file0.kind = "absent" ) =>
      /\ th[t].err = "Session not found."
      /\ th[t].calls = <<>>
      /\ user_settings = th[t].pre

\* such a login has ended, in the Anonymous state
C4_Witness ==
  \E t \in Threads :
    /\ Ended(t, "login")
    /\ th[t].args = NoCreds
    /\ th[t].file0.kind = "absent"
    /\ th[t].pre.hub_session = None
    /\ th[t].err = "Session not found."

CallNames(t) == {th[t].calls[i] : i \in DOMAIN th[t].calls}

\* C5: remember-me round trip. After a successful login(pat, remember_me)
\* the session file holds the HubSession that login was issued; and a login
\* with no arguments that finds such a file makes no connect call, fails
\* only if the hub's pull fails, and on success is Connected with the
\* HubSession of the file.
C5_RememberMeRoundTrip ==
  \A t \in Threads :
    /\ ( /\ Succeeded(t, "login")
         /\ th[t].remember_me
         /\ th[t].args.pat # None ) =>
         /\ session_file.kind = "json"
         /\ session_file.session = th[t].hub_session
         /\ session_file.session = user_settings.hub_session
    /\ ( /\ Ended(t, "login")
         /\ th[t].args = NoCreds
         /\ ~th[t].remember_me
         /\ th[t].file0.kind = "json" ) =>
         /\ "connect" \notin CallNames(t)
         /\ th[t].err \in {"none", "HubUnavailableError"}
         /\ th[t].err = "none" =>
              /\ user_settings.hub_session = th[t].file0.session
              /\ user_settings.hub_session # None

\* a login with no arguments, begun in the Anonymous state of a fresh
\* process over a remembered session, has succeeded
C5_Witness ==
  \E t \in Threads :
    /\ Succeeded(t, "login")
    /\ th[t].args = NoCreds
    /\ ~th[t].remember_me
    /\ th[t].pre.hub_session = None
    /\ th[t].file0.kind = "json"
    /\ user_settings.hub_session = th[t].file0.session

\* C6: Anonymous save and refresh never contact the hub. A save or refresh
\* begun in an Anonymous state has made no hub call at any of its steps, its
\* only steps being the write to or the read of the default settings store.
C6_AnonymousNeverContactsHub ==
  \A t \in Threads :
    ( /\ th[t].pc # "idle"
      /\ th[t].op \in {"save", "refresh"}
      /\ th[t].pre.hub_session = None ) =>
      /\ th[t].calls = <<>>
      /\ th[t].pc \in {"save_write", "refresh_default", "finally"}
      /\ th[t].err \notin {"NotConnectedError", "HubUnavailableError"}

\* an Anonymous save has ended, having written the edited current settings
\* to the default store
C6_Witness ==
  \E t \in Threads :
    /\ Succeeded(t, "save")
    /\ th[t].pre.hub_session = None
    /\ th[t].calls = <<>>
    /\ default_store # DefaultStore
    /\ default_store.data = user_settings.data

CredentialNames == {"email", "password", "pat"}

\* C7: audit fires on every outcome. Nothing is logged while the body of a
\* command runs; when the command has returned or raised, exactly one record
\* has been logged, its route names the command, and its kwargs hold no
\* credential argument.
C7_AuditOnEveryOutcome ==
  \A t \in Threads :
    /\ th[t].pc # "idle" => th[t].logged = <<>>
    /\ (th[t].pc = "idle" /\ th[t].op # "none") =>
         /\ Len(th[t].logged) = 1
         /\ th[t].logged[1].route = <<"account", th[t].op>>
         /\ th[t].logged[1].kwargs \cap CredentialNames = {}

\* a login that raised has logged its one record
C7_Witness ==
  \E t \in Threads :
    /\ th[t].pc = "idle"
    /\ th[t].op = "login"
    /\ th[t].err = "HubUnavailableError"
    /\ Len(th[t].logged) = 1
    /\ th[t].logged[1].exec_info = "OpenBBError"

\* C8: all-or-nothing settings commit. A login or refresh that succeeds has
\* installed the pulled and reconciled settings, and one that fails at any
\* step, the remember-me persistence included, leaves the current settings
\* exactly as they were before the call.
C8_AllOrNothingCommit ==
  \A t \in Threads :
    /\ Succeeded(t, "login") =>
         user_settings = UpdateDefault(th[t].incoming)
    /\ (Succeeded(t, "refresh") /\ th[t].pre.hub_session # None) =>
         user_settings = [UpdateDefault(th[t].incoming) EXCEPT !.id = th[t].pre.id]
    /\ (Failed(t, "login") \/ Failed(t, "refresh")) =>
         user_settings = th[t].pre

\* C9: session-file validity. In every state, the intermediate steps of a
\* remember-me write and the states after a failed command included, the
\* session file is absent or holds a complete serialized HubSession.
C9_SessionFileAlwaysValid ==
  session_file.kind \in {"absent", "json"}

\* C10: a corrupt session is distinct from an absent one. A login called
\* with no credentials over a session file that does not parse fails with
\* an error other than "Session not found.", calls neither connect nor pull,
\* and leaves the current settings as they were.
C10_CorruptSessionIsDistinct ==
  \A t \in Threads :
    ( /\ Ended(t, "login")
      /\ th[t].args = NoCreds
      /\ th[t].file0.kind \in {"empty", "partial"} ) =>
      /\ th[t].err = "JSONDecodeError"
      /\ th[t].err # "Session not found."
      /\ th[t].calls = <<>>
      /\ th[t].incoming = NoSettings
      /\ user_settings = th[t].pre

\* a login with no credentials has failed on a session file cut short by an
\* earlier write
C10_Witness ==
  \E t \in Threads :
    /\ Failed(t, "login")
    /\ th[t].args = NoCreds
    /\ th[t].file0.kind = "partial"
    /\ th[t].err = "JSONDecodeError"
    /\ session_file = th[t].file0

\* C11: single wrapped error after audit. No error reaches the caller while
\* the command runs; a command that failed has handed the caller exactly one
\* error, an OpenBBError whose cause is the error the body raised; a command
\* that succeeded has handed it none; and whenever the caller holds the
\* error, the audit record of that invocation has been logged.
C11_SingleWrappedErrorAfterAudit ==
  \A t \in Threads :
    /\ th[t].pc # "idle" => th[t].caught = <<>>
    /\ (th[t].pc = "idle" /\ th[t].err # "none") =>
         /\ Len(th[t].caught) = 1
         /\ th[t].caught[1].type = "OpenBBError"
         /\ th[t].caught[1].cause = th[t].err
    /\ (th[t].pc = "idle" /\ th[t].err = "none") => th[t].caught = <<>>
    /\ th[t].caught # <<>> =>
         /\ Len(th[t].logged) = 1
         /\ th[t].logged[1].exec_info = "OpenBBError"

\* a logout refused in the Anonymous state has reached its caller
C11_Witness ==
  \E t \in Threads :
    /\ th[t].pc = "idle"
    /\ th[t].op = "logout"
    /\ Len(th[t].caught) = 1
    /\ th[t].caught[1].cause = "Not connected to hub."
    /\ Len(th[t].logged) = 1

\* the body of the last command of thread t has ended
Over(t) == th[t].pc \in {"finally", "idle"} /\ th[t].op # "none"

\* C12: operations are serialized. In either order of a successful logout
\* and a save, refresh or logout, the state after both is Anonymous with no
\* session file; so it is after the two have run concurrently.
C12_OperationsSerialized ==
  \A a \in Threads, b \in Threads :
    ( /\ a # b
      /\ Over(a) /\ Over(b)
      /\ th[a].op = "logout" /\ th[a].err = "none"
      /\ th[b].op \in {"save", "refresh", "logout"} ) =>
      /\ user_settings.hub_session = None
      /\ session_file.kind = "absent"

Commands == {"login", "save", "refresh", "logout"}

\* C13: returnSettings contract. Each of the four commands, when it
\* succeeds, returns the current settings as they stand after it if
\* return_settings is true, and None if it is false.
C13_ReturnSettingsContract ==
  \A t \in Threads :
    (th[t].pc = "finally" /\ th[t].op \in Commands /\ th[t].err = "none") =>
      /\ th[t].return_settings => th[t].ret = user_settings
      /\ ~th[t].return_settings => th[t].ret = NoSettings

\* a logout called with return_settings has returned the default settings
\* it installed
C13_Witness ==
  \E t \in Threads :
    /\ Succeeded(t, "logout")
    /\ th[t].return_settings
    /\ th[t].ret = user_settings
    /\ th[t].ret # th[t].pre
    /\ th[t].ret.hub_session = None

\* C14: logout requires Connected and is a no-op on rejection. A logout
\* begun in an Anonymous state fails at once with "Not connected to hub.",
\* without a disconnect call, with the session file (present or not) and the
\* current settings as they were.
C14_AnonymousLogoutIsNoOp ==
  \A t \in Threads :
    ( /\ th[t].pc # "idle"
      /\ th[t].op = "logout"
      /\ th[t].pre.hub_session = None ) =>
      /\ th[t].pc = "finally"
      /\ th[t].err = "Not connected to hub."
      /\ th[t].calls = <<>>
      /\ session_file = th[t].file0
      /\ user_settings = th[t].pre

\* an Anonymous logout has been refused while a session file exists
C14_Witness ==
  \E t \in Threads :
    /\ Failed(t, "logout")
    /\ th[t].pre.hub_session = None
    /\ th[t].file0.kind = "json"
    /\ session_file.kind = "json"

\* C15: login reaches Connected. After a successful login, by email and
\* password, by pat or by the stored session, the current settings carry a
\* HubSession, the one of the hub client that pulled; with remember_me the
\* session written to the file is that HubSession too.
C15_LoginReachesConnected ==
  \A t \in Threads :
    Succeeded(t, "login") =>
      /\ user_settings.hub_session # None
      /\ user_settings.hub_session = th[t].hub_session
      /\ "pull" \in CallNames(t)
      /\ th[t].remember_me =>
           /\ session_file.kind = "json"
           /\ session_file.session = th[t].hub_session

\* a login by email and password with remember_me has succeeded from the
\* Anonymous state
C15_Witness ==
  \E t \in Threads :
    /\ Succeeded(t, "login")
    /\ th[t].args.email # None
    /\ th[t].remember_me
    /\ th[t].pre.hub_session = None
    /\ user_settings.hub_session = session_file.session
    /\ user_settings.hub_session # None

\* C16: refresh never changes the connection state. A successful refresh
\* begun Anonymous ends Anonymous, the current settings being those of the
\* default store, in-memory edits discarded; a successful refresh begun
\* Connected ends Connected.
C16_RefreshKeepsConnectionState ==
  \A t \in Threads :
    /\ (Succeeded(t, "refresh") /\ th[t].pre.hub_session = None) =>
         /\ user_settings.hub_session = None
         /\ user_settings.id = default_store.id
         /\ user_settings.data = default_store.data
    /\ (Succeeded(t, "refresh") /\ th[t].pre.hub_session # None) =>
         user_settings.hub_session # None

\* an Anonymous refresh has discarded an edit made in memory
C16_Witness ==
  \E t \in Threads :
    /\ Succeeded(t, "refresh")
    /\ th[t].pre.hub_session = None
    /\ th[t].pre.data # default_store.data
    /\ user_settings.data = default_store.data

\* C17: save leaves the controller state unchanged. At every step of a save
\* and at its end, successful or failed, the current settings and the
\* session file are as they were; an Anonymous save makes no hub call and
\* ends with the current settings in the default store; a Connected save
\* leaves the default store alone and ends having made exactly one hub call,
\* a push by a client built from the current HubSession.
C17_SaveLeavesStateUnchanged ==
  \A t \in Threads :
    /\ (th[t].pc # "idle" /\ th[t].op = "save") =>
         /\ user_settings = th[t].pre
         /\ session_file = th[t].file0
         /\ th[t].hub_session = th[t].pre.hub_session
         /\ th[t].pre.hub_session # None => default_store = th[t].store0
    /\ (Ended(t, "save") /\ th[t].pre.hub_session = None) =>
         /\ th[t].calls = <<>>
         /\ default_store.id = th[t].pre.id
         /\ default_store.data = th[t].pre.data
    /\ (Ended(t, "save") /\ th[t].pre.hub_session # None) =>
         th[t].calls = <<"push">>

\* a Connected save has failed in its push
C17_Witness ==
  \E t \in Threads :
    /\ Failed(t, "save")
    /\ th[t].pre.hub_session # None
    /\ th[t].calls = <<"push">>
    /\ user_settings = th[t].pre

\* C18: session-file lifecycle. Only a login called with no credential
\* argument ever opens the session file for reading; and every step that
\* changes the file is either a step of a login with remember_me that
\* creates or overwrites it, or the step of a logout that removes it: save,
\* refresh and login without remember_me leave its existence and content
\* as they are.
C18_SessionFileLifecycle ==
  /\ [](\A t \in Threads :
          th[t].file_read => (th[t].op = "login" /\ th[t].args = NoCreds))
  /\ [][ session_file' # session_file =>
           \E t \in Threads :
             \/ /\ th[t].op = "login"
                /\ th[t].remember_me
                /\ th[t].pc \in {"login_open", "login_dump"}
                /\ session_file'.kind # "absent"
             \/ /\ th[t].op = "logout"
                /\ th[t].pc = "logout_unlink"
                /\ session_file.kind # "absent"
                /\ session_file'.kind = "absent" ]_vars

\* a login by pat without remember_me has succeeded over a remembered
\* session, which it neither read nor changed
C18_Witness ==
  \E t \in Threads :
    /\ Succeeded(t, "login")
    /\ th[t].args.pat # None
    /\ ~th[t].remember_me
    /\ ~th[t].file_read
    /\ th[t].file0.kind = "json"
    /\ session_file = th[t].file0
    /\ user_settings.hub_session # session_file.session

\* C19: logout step order and failure atomicity. A logout begun Connected
\* disconnects first, with the session file and the current settings still
\* as they were; then deletes the session file, the current settings still
\* as they were; then installs the defaults. When the disconnect fails the
\* logout fails with the session file and the current settings unchanged
\* and the state still Connected. So whenever a logout has made the state
\* Anonymous, the session file is absent.
C19_LogoutStepOrder ==
  \A t \in Threads :
    (th[t].op = "logout" /\ th[t].pre.hub_session # None) =>
      /\ th[t].pc = "logout_disconnect" =>
           /\ th[t].calls = <<>>
           /\ session_file = th[t].file0
           /\ user_settings = th[t].pre
      /\ th[t].pc = "logout_unlink" =>
           /\ th[t].calls = <<"disconnect">>
           /\ th[t].err = "none"
           /\ session_file = th[t].file0
           /\ user_settings = th[t].pre
      /\ th[t].pc = "logout_default" =>
           /\ th[t].calls = <<"disconnect">>
           /\ session_file.kind = "absent"
           /\ user_settings = th[t].pre
      /\ Failed(t, "logout") =>
           /\ th[t].calls = <<"disconnect">>
           /\ session_file = th[t].file0
           /\ user_settings = th[t].pre
           /\ user_settings.hub_session # None
      /\ Succeeded(t, "logout") =>
           /\ th[t].calls = <<"disconnect">>
           /\ user_settings = ReadDefault(default_store)
      /\ (th[t].pc # "idle" /\ user_settings.hub_session = None) =>
           session_file.kind = "absent"

\* a logout over a remembered session has failed in its disconnect, the
\* file still there and the state still Connected
C19_Witness ==
  \E t \in Threads :
    /\ Failed(t, "logout")
    /\ th[t].pre.hub_session # None
    /\ th[t].err = "HubUnavailableError"
    /\ th[t].file0.kind = "json"
    /\ session_file = th[t].file0
    /\ user_settings.hub_session # None

====
